---- MODULE Spec2Model ----
(***************************************************************************)
(* The dashboard components of physique57-insight-hub:                     *)
(*   - ExecutiveSummarySection.tsx  (memoised metrics, filter state)       *)
(*   - part_001, a second ExecutiveSummarySection (drill-down, tabs)       *)
(*   - part_000, DiscountsSection                                          *)
(* JavaScript values are tagged records, so that `x || 0`, property order  *)
(* of plain objects, division by zero and in-place sorting behave as the   *)
(* language defines them.                                                  *)
(***************************************************************************)
EXTENDS Integers, Sequences, FiniteSets, TLC

(***************************************************************************)
(* Bounds of the model.                                                    *)
(***************************************************************************)
\* total number of records the data source holds over the four sheets
MaxRecords == 2

(***************************************************************************)
(* JavaScript values.                                                      *)
(***************************************************************************)
Undefined == [t |-> "undefined"]
Null == [t |-> "null"]
NaN == [t |-> "NaN"]
Infinity(sg) == [t |-> "Infinity", sg |-> sg]
Bool(b) == [t |-> "boolean", b |-> b]
Str(s) == [t |-> "string", s |-> s]
Arr(a) == [t |-> "array", a |-> a]
Obj(o) == [t |-> "object", o |-> o]

Abs(i) == IF i < 0 THEN -i ELSE i

RECURSIVE GCD(_, _)
GCD(a, b) == IF b = 0 THEN a ELSE GCD(b, a % b)

\* a finite number n/d in lowest terms, d > 0 (d # 0 is required)
Rat(n, d) ==
  LET g == GCD(Abs(n), Abs(d))
      s == IF d < 0 THEN -1 ELSE 1
  IN [t |-> "number", n |-> (s * n) \div g, d |-> (s * d) \div g]

Num(n) == [t |-> "number", n |-> n, d |-> 1]

Digits == <<"0", "1", "2", "3", "4", "5", "6", "7", "8", "9">>

IsDigit(c) == \E i \in 1..Len(Digits) : Digits[i] = c

DigitVal(c) == (CHOOSE i \in 1..Len(Digits) : Digits[i] = c) - 1

IsFinite(x) == x.t = "number"
Sign(i) == IF i > 0 THEN 1 ELSE IF i < 0 THEN -1 ELSE 0

\* ToBoolean
Truthy(x) ==
  CASE x.t = "undefined" -> FALSE
    [] x.t = "null" -> FALSE
    [] x.t = "NaN" -> FALSE
    [] x.t = "boolean" -> x.b
    [] x.t = "number" -> x.n # 0
    [] x.t = "string" -> x.s # <<>>
    [] OTHER -> TRUE

\* a || b
Or(a, b) == IF Truthy(a) THEN a ELSE b

\* the decimal digits of a natural number, as characters
RECURSIVE NatToString(_)
NatToString(n) ==
  IF n < 10 THEN <<Digits[n + 1]>>
  ELSE NatToString(n \div 10) \o <<Digits[(n % 10) + 1]>>

\* the digits of r/d after the decimal point, at most k of them
RECURSIVE FractionDigits(_, _, _)
FractionDigits(r, d, k) ==
  IF r = 0 \/ k = 0 THEN <<>>
  ELSE <<Digits[((10 * r) \div d) + 1]>> \o FractionDigits((10 * r) % d, d, k - 1)

\* ToString, on the values a `+` can meet (a number prints its integer part
\* and up to 16 decimals)
JSToString(x) ==
  CASE x.t = "string" -> x.s
    [] x.t = "undefined" -> <<"u", "n", "d", "e", "f", "i", "n", "e", "d">>
    [] x.t = "null" -> <<"n", "u", "l", "l">>
    [] x.t = "NaN" -> <<"N", "a", "N">>
    [] x.t = "boolean" -> IF x.b THEN <<"t", "r", "u", "e">> ELSE <<"f", "a", "l", "s", "e">>
    [] x.t = "Infinity" ->
         (IF x.sg < 0 THEN <<"-">> ELSE <<>>) \o <<"I", "n", "f", "i", "n", "i", "t", "y">>
    [] x.t = "number" ->
         LET m == Abs(x.n)
             frac == FractionDigits(m % x.d, x.d, 16)
         IN (IF x.n < 0 THEN <<"-">> ELSE <<>>) \o NatToString(m \div x.d)
              \o (IF frac = <<>> THEN <<>> ELSE <<".">> \o frac)
    [] OTHER -> <<"[", "o", "b", "j", "e", "c", "t", " ", "O", "b", "j", "e", "c", "t", "]">>

\* the value of a string of decimal digits
RECURSIVE DigitsValue(_)
DigitsValue(s) ==
  IF s = <<>> THEN 0
  ELSE 10 * DigitsValue(SubSeq(s, 1, Len(s) - 1))
         + DigitVal(s[Len(s)])

\* ToNumber of a string: empty is 0, an optionally signed run of decimal
\* digits is its value, any other text is NaN
StringToNumber(s) ==
  LET body == IF s # <<>> /\ s[1] = "-" THEN Tail(s) ELSE s
  IN IF s = <<>> THEN Num(0)
     ELSE IF body # <<>> /\ \A i \in 1..Len(body) : IsDigit(body[i])
          THEN Num((IF s[1] = "-" THEN -1 ELSE 1) * DigitsValue(body))
          ELSE NaN

\* ToNumber, on the values the components do arithmetic with
ToNumber(x) ==
  CASE x.t = "undefined" -> NaN
    [] x.t = "null" -> Num(0)
    [] x.t = "boolean" -> IF x.b THEN Num(1) ELSE Num(0)
    [] x.t = "string" -> StringToNumber(x.s)
    [] x.t \in {"array", "object"} -> NaN
    [] OTHER -> x

\* a + b: concatenation when an operand is a string (or an object, whose
\* primitive is a string), addition of numbers otherwise
Add(a, b) ==
  LET x == ToNumber(a)
      y == ToNumber(b)
  IN CASE a.t \in {"string", "array", "object"} \/ b.t \in {"string", "array", "object"} ->
            Str(JSToString(a) \o JSToString(b))
       [] x.t = "NaN" \/ y.t = "NaN" -> NaN
       [] x.t = "Infinity" /\ y.t = "Infinity" -> IF x.sg = y.sg THEN x ELSE NaN
       [] x.t = "Infinity" -> x
       [] y.t = "Infinity" -> y
       [] OTHER -> Rat(x.n * y.d + y.n * x.d, x.d * y.d)

\* a * b
Mul(a, b) ==
  LET x == ToNumber(a)
      y == ToNumber(b)
      sx == IF x.t = "Infinity" THEN x.sg ELSE Sign(x.n)
      sy == IF y.t = "Infinity" THEN y.sg ELSE Sign(y.n)
  IN CASE x.t = "NaN" \/ y.t = "NaN" -> NaN
       [] x.t = "Infinity" \/ y.t = "Infinity" ->
            IF sx * sy = 0 THEN NaN ELSE Infinity(sx * sy)
       [] OTHER -> Rat(x.n * y.n, x.d * y.d)

Neg(a) == Mul(a, Num(-1))

\* a - b
Sub(a, b) == Add(a, Neg(b))

\* a / b : 0/0 is NaN, x/0 is an infinity (the sign of a zero is not tracked)
Div(a, b) ==
  LET x == ToNumber(a)
      y == ToNumber(b)
  IN CASE x.t = "NaN" \/ y.t = "NaN" -> NaN
       [] x.t = "Infinity" /\ y.t = "Infinity" -> NaN
       [] x.t = "Infinity" -> Infinity(IF y.n < 0 THEN -x.sg ELSE x.sg)
       [] y.t = "Infinity" -> Num(0)
       [] y.n = 0 -> IF x.n = 0 THEN NaN ELSE Infinity(Sign(x.n))
       [] OTHER -> Rat(x.n * y.d, x.d * y.n)

\* a > b
Gt(a, b) ==
  LET x == ToNumber(a)
      y == ToNumber(b)
  IN CASE x.t = "NaN" \/ y.t = "NaN" -> FALSE
       [] x.t = "Infinity" /\ y.t = "Infinity" -> x.sg > y.sg
       [] x.t = "Infinity" -> x.sg > 0
       [] y.t = "Infinity" -> y.sg < 0
       [] OTHER -> x.n * y.d > y.n * x.d

\* Math.max(...xs)
RECURSIVE MathMax(_)
MathMax(xs) ==
  IF xs = <<>> THEN Infinity(-1)
  ELSE LET h == ToNumber(Head(xs))
           m == MathMax(Tail(xs))
       IN IF h.t = "NaN" \/ m.t = "NaN" THEN NaN
          ELSE IF Gt(h, m) THEN h ELSE m

\* record.field : a property the record does not carry reads as undefined
Get(r, f) == IF f \in DOMAIN r THEN r[f] ELSE Undefined

(***************************************************************************)
(* Strings are tuples of one-character strings, so that the property order *)
(* of a plain object (integer-like keys first) is computed, not assumed.   *)
(***************************************************************************)
\* the key is a canonical numeric string ("0", "7", "10", but not "01" or "")
IsIndexKey(k) ==
  /\ k # <<>>
  /\ \A i \in 1..Len(k) : IsDigit(k[i])
  /\ Len(k) = 1 \/ k[1] # "0"

RECURSIVE IndexVal(_)
IndexVal(k) ==
  IF k = <<>> THEN 0
  ELSE 10 * IndexVal(SubSeq(k, 1, Len(k) - 1)) + DigitVal(k[Len(k)])

(***************************************************************************)
(* Plain objects used as accumulators ({} in the reduce calls): a sequence *)
(* of <<key, value>> in property-creation order.                           *)
(***************************************************************************)
EmptyObject == <<>>

HasProp(o, k) == \E i \in 1..Len(o) : o[i][1] = k

\* o[k]
Prop(o, k) == o[CHOOSE i \in 1..Len(o) : o[i][1] = k][2]

\* o[k] = v
SetProp(o, k, v) ==
  IF HasProp(o, k)
  THEN [i \in 1..Len(o) |-> IF o[i][1] = k THEN <<k, v>> ELSE o[i]]
  ELSE Append(o, <<k, v>>)

\* positions of the integer-like keys, ascending by numeric value
RECURSIVE IndexKeysAsc(_, _)
IndexKeysAsc(o, todo) ==
  IF todo = {} THEN <<>>
  ELSE LET m == CHOOSE i \in todo :
                  \A j \in todo : IndexVal(o[i][1]) <= IndexVal(o[j][1])
       IN <<m>> \o IndexKeysAsc(o, todo \ {m})

\* positions of the other keys, in creation order
RECURSIVE StringKeysInOrder(_, _)
StringKeysInOrder(o, i) ==
  IF i > Len(o) THEN <<>>
  ELSE (IF IsIndexKey(o[i][1]) THEN <<>> ELSE <<i>>) \o StringKeysInOrder(o, i + 1)

\* OrdinaryOwnPropertyKeys: integer-like keys ascending, then string keys
\* in creation order
OwnPropertyKeys(o) ==
  IndexKeysAsc(o, {i \in 1..Len(o) : IsIndexKey(o[i][1])}) \o StringKeysInOrder(o, 1)

\* Object.entries(o)
ObjectEntries(o) ==
  LET ks == OwnPropertyKeys(o) IN [i \in 1..Len(ks) |-> o[ks[i]]]

\* Object.values(o)
ObjectValues(o) ==
  LET ks == OwnPropertyKeys(o) IN [i \in 1..Len(ks) |-> o[ks[i]][2]]

(***************************************************************************)
(* Arrays.                                                                 *)
(***************************************************************************)
\* a.slice(0, n)
Slice0(a, n) == SubSeq(a, 1, IF Len(a) < n THEN Len(a) ELSE n)

\* x?.length
Length(x) == IF x.t = "array" THEN Num(Len(x.a)) ELSE Undefined

\* SetSize counting the values themselves (values.length), not the distinct ones
SetSizeOfAll(values) == Len(values)

\* new Set(values).size
SetSize(values) == Cardinality({values[i] : i \in 1..Len(values)})

\* the comparator (a, b) => b.key - a.key says that x goes before e
GoesBefore(kx, ke) == Gt(Sub(kx, ke), Num(0))

\* one step of the stable sort: x (later in the array) is put before the
\* first element the comparator orders after it
RECURSIVE InsertDesc(_, _, _)
InsertDesc(sorted, x, keys) ==
  IF sorted = <<>> THEN <<x>>
  ELSE IF GoesBefore(keys[x], keys[Head(sorted)]) THEN <<x>> \o sorted
       ELSE <<Head(sorted)>> \o InsertDesc(Tail(sorted), x, keys)

RECURSIVE SortOrder(_, _)
SortOrder(keys, n) ==
  IF n = 0 THEN <<>> ELSE InsertDesc(SortOrder(keys, n - 1), n, keys)

\* a.sort((a, b) => b.key - a.key), keys[i] being a[i].key: Array.prototype.sort
\* is stable
SortDesc(a, keys) ==
  LET p == SortOrder(keys, Len(a)) IN [i \in 1..Len(a) |-> a[p[i]]]

(***************************************************************************)
(* Dates, in local time: year, month (0 is January) and day of the month.  *)
(***************************************************************************)
DateOf(y, m, d) == [t |-> "date", y |-> y, m |-> m, d |-> d]

\* new Date(text that is not a date), new Date(undefined)
InvalidDate == [t |-> "InvalidDate"]

IsLeapYear(y) == (y % 4 = 0 /\ y % 100 # 0) \/ y % 400 = 0

DaysInMonth(y, m) ==
  IF m = 1 THEN (IF IsLeapYear(y) THEN 29 ELSE 28)
  ELSE IF m \in {3, 5, 8, 10} THEN 30 ELSE 31

\* date.setMonth(mon): the month is taken modulo 12 into the year, and a day
\* the month does not have runs over into the month that follows
SetMonth(date, mon) ==
  LET y == date.y + (mon \div 12)
      m == mon % 12
      over == date.d - DaysInMonth(y, m)
  IN IF over <= 0 THEN DateOf(y, m, date.d)
     ELSE DateOf(y + ((m + 1) \div 12), (m + 1) % 12, over)

ShortMonths ==
  << <<"J", "a", "n">>, <<"F", "e", "b">>, <<"M", "a", "r">>, <<"A", "p", "r">>,
     <<"M", "a", "y">>, <<"J", "u", "n">>, <<"J", "u", "l">>, <<"A", "u", "g">>,
     <<"S", "e", "p">>, <<"O", "c", "t">>, <<"N", "o", "v">>, <<"D", "e", "c">> >>

\* date.toLocaleDateString('en', { month: 'short', year: 'numeric' })
MonthLabel(date) == ShortMonths[date.m + 1] \o <<" ">> \o NatToString(date.y)

\* the text is YYYY-MM-DDTHH:mm, a date and time without offset
IsLocalDateTime(s) ==
  /\ Len(s) = 16
  /\ \A i \in {1, 2, 3, 4, 6, 7, 9, 10, 12, 13, 15, 16} : IsDigit(s[i])
  /\ s[5] = "-" /\ s[8] = "-" /\ s[11] = "T" /\ s[14] = ":"

\* new Date(value) for undefined and for text: a date and time without offset
\* is local time, text that is no date gives an Invalid Date
NewDate(v) ==
  CASE v.t = "undefined" -> InvalidDate
    [] v.t = "string" ->
         IF IsLocalDateTime(v.s)
         THEN LET y == DigitsValue(SubSeq(v.s, 1, 4))
                  m == DigitsValue(SubSeq(v.s, 6, 7))
                  d == DigitsValue(SubSeq(v.s, 9, 10))
              IN IF /\ m \in 1..12
                    /\ d \in 1..DaysInMonth(y, m - 1)
                    /\ DigitsValue(SubSeq(v.s, 12, 13)) < 24
                    /\ DigitsValue(SubSeq(v.s, 15, 16)) < 60
                 THEN DateOf(y, m - 1, d)
                 ELSE InvalidDate
         ELSE InvalidDate

\* itemDate.getFullYear() === date.getFullYear() &&
\* itemDate.getMonth() === date.getMonth()   (NaN for an Invalid Date)
SameMonth(itemDate, date) ==
  itemDate.t = "date" /\ itemDate.y = date.y /\ itemDate.m = date.m

(***************************************************************************)
(* Literals of the components.                                             *)
(***************************************************************************)
Unknown == <<"U", "n", "k", "n", "o", "w", "n">>
Other == <<"O", "t", "h", "e", "r">>
NotAvailable == <<"N", "/", "A">>
Converted == <<"C", "o", "n", "v", "e", "r", "t", "e", "d">>
Retained == <<"R", "e", "t", "a", "i", "n", "e", "d">>

\* the property key a value is used as (the grouping values are strings)
PropertyKey(v) == v.s

\* SumOrZero with `item.f || 1`: an absent value counts 1
RECURSIVE SumOrOne(_, _)
SumOrOne(a, f) ==
  IF a = <<>> THEN Num(0)
  ELSE Add(SumOrOne(SubSeq(a, 1, Len(a) - 1), f), Or(Get(a[Len(a)], f), Num(1)))

\* array.reduce((sum, item) => sum + (item.f || 0), 0)
RECURSIVE SumOrZero(_, _)
SumOrZero(a, f) ==
  IF a = <<>> THEN Num(0)
  ELSE Add(SumOrZero(SubSeq(a, 1, Len(a) - 1), f), Or(Get(a[Len(a)], f), Num(0)))

\* array.map(item => item.f)
MapField(a, f) == [i \in 1..Len(a) |-> Get(a[i], f)]

\* CountEq with `item => item.f`: every record that holds some value counts
CountTruthy(a, f, lit) == Cardinality({i \in 1..Len(a) : Truthy(Get(a[i], f))})

\* array.filter(item => item.f === 'lit').length
CountEq(a, f, lit) == Cardinality({i \in 1..Len(a) : Get(a[i], f) = Str(lit)})

(***************************************************************************)
(* ExecutiveSummarySection.tsx: the four memoised metrics.                 *)
(***************************************************************************)
\* locationBreakdownAcc without `if (!acc[location])`: every record starts its
\* group anew
RECURSIVE locationBreakdownAccReset(_)
locationBreakdownAccReset(a) ==
  IF a = <<>> THEN EmptyObject
  ELSE LET acc == locationBreakdownAccReset(SubSeq(a, 1, Len(a) - 1))
           item == a[Len(a)]
           location == PropertyKey(Or(Get(item, "calculatedLocation"), Str(Unknown)))
       IN SetProp(acc, location,
                  [revenue |-> Or(Get(item, "paymentValue"), Num(0)),
                   transactions |-> Num(1),
                   members |-> {Get(item, "memberId")}])

\* the reduce of salesMetrics.locationBreakdown
RECURSIVE locationBreakdownAcc(_)
locationBreakdownAcc(a) ==
  IF a = <<>> THEN EmptyObject
  ELSE LET acc == locationBreakdownAcc(SubSeq(a, 1, Len(a) - 1))
           item == a[Len(a)]
           location == PropertyKey(Or(Get(item, "calculatedLocation"), Str(Unknown)))
           acc1 == IF ~HasProp(acc, location)
                   THEN SetProp(acc, location,
                                [revenue |-> Num(0), transactions |-> Num(0), members |-> {}])
                   ELSE acc
           g == Prop(acc1, location)
       IN SetProp(acc1, location,
                  [revenue |-> Add(g.revenue, Or(Get(item, "paymentValue"), Num(0))),
                   transactions |-> Add(g.transactions, Num(1)),
                   members |-> g.members \cup {Get(item, "memberId")}])

\* Object.entries(locationBreakdown).map(([name, data]) => ({...}))
locationBreakdown(a) ==
  LET es == ObjectEntries(locationBreakdownAcc(a))
  IN [i \in 1..Len(es) |->
        [name |-> es[i][1],
         revenue |-> es[i][2].revenue,
         transactions |-> es[i][2].transactions,
         members |-> Cardinality(es[i][2].members)]]

\* salesMetrics.monthlyTrends: the loop `for (let i = 11; i >= 0; i--)`, now
\* being the value of each `new Date()`
monthlyTrends(a, now) ==
  [k \in 1..12 |->
     LET date == SetMonth(now, now.m - (12 - k))
         monthData == SelectSeq(a, LAMBDA item : SameMonth(NewDate(Get(item, "paymentDate")), date))
     IN [month |-> MonthLabel(date),
         revenue |-> SumOrZero(monthData, "paymentValue"),
         transactions |-> Num(Len(monthData)),
         members |-> SetSize(MapField(monthData, "memberId"))]]

\* the callback of useMemo(..., [salesData]), run when the clock reads now
ComputeSalesMetrics(salesData, now) ==
  IF ~Truthy(Length(salesData)) THEN Null
  ELSE LET a == salesData.a
           totalRevenue == SumOrZero(a, "paymentValue")
           totalTransactions == Length(salesData)
           totalVAT == SumOrZero(a, "paymentVAT")
       IN [t |-> "object",
           totalRevenue |-> totalRevenue,
           netRevenue |-> Sub(totalRevenue, totalVAT),
           totalTransactions |-> totalTransactions,
           uniqueMembers |-> SetSize(MapField(a, "memberId")),
           averageTicketValue |-> Div(totalRevenue, totalTransactions),
           totalVAT |-> totalVAT,
           locationBreakdown |-> locationBreakdown(a),
           monthlyTrends |-> monthlyTrends(a, now)]

\* classTypeBreakdownAcc with `acc[type].bookings += 1`: a booking per session
RECURSIVE classTypeBreakdownAccPerSession(_)
classTypeBreakdownAccPerSession(a) ==
  IF a = <<>> THEN EmptyObject
  ELSE LET acc == classTypeBreakdownAccPerSession(SubSeq(a, 1, Len(a) - 1))
           session == a[Len(a)]
           type == PropertyKey(Or(Or(Get(session, "cleanedClass"), Get(session, "classType")),
                                  Str(Unknown)))
           acc1 == IF ~HasProp(acc, type)
                   THEN SetProp(acc, type,
                                [sessions |-> Num(0), bookings |-> Num(0), checkins |-> Num(0)])
                   ELSE acc
           g == Prop(acc1, type)
       IN SetProp(acc1, type,
                  [sessions |-> Add(g.sessions, Num(1)),
                   bookings |-> Add(g.bookings, Num(1)),
                   checkins |-> Add(g.checkins, Or(Get(session, "checkedInCount"), Num(0)))])

\* the reduce of sessionMetrics.classTypeBreakdown
RECURSIVE classTypeBreakdownAcc(_)
classTypeBreakdownAcc(a) ==
  IF a = <<>> THEN EmptyObject
  ELSE LET acc == classTypeBreakdownAcc(SubSeq(a, 1, Len(a) - 1))
           session == a[Len(a)]
           type == PropertyKey(Or(Or(Get(session, "cleanedClass"), Get(session, "classType")),
                                  Str(Unknown)))
           acc1 == IF ~HasProp(acc, type)
                   THEN SetProp(acc, type,
                                [sessions |-> Num(0), bookings |-> Num(0), checkins |-> Num(0)])
                   ELSE acc
           g == Prop(acc1, type)
       IN SetProp(acc1, type,
                  [sessions |-> Add(g.sessions, Num(1)),
                   bookings |-> Add(g.bookings, Or(Get(session, "checkedInCount"), Num(0))),
                   checkins |-> Add(g.checkins, Or(Get(session, "checkedInCount"), Num(0)))])

\* the callback of useMemo(..., [sessionsData])
ComputeSessionMetrics(sessionsData) ==
  IF ~Truthy(Length(sessionsData)) THEN Null
  ELSE LET a == sessionsData.a
           totalSessions == Length(sessionsData)
           totalBookings == SumOrZero(a, "checkedInCount")
           totalCheckins == SumOrZero(a, "checkedInCount")
       IN [t |-> "object",
           totalSessions |-> totalSessions,
           totalBookings |-> totalBookings,
           totalCheckins |-> totalCheckins,
           averageFillRate |-> Div(SumOrZero(a, "fillPercentage"), totalSessions),
           attendanceRate |-> IF Gt(totalBookings, Num(0))
                              THEN Mul(Div(totalCheckins, totalBookings), Num(100))
                              ELSE Num(0),
           classTypeBreakdown |-> Slice0(ObjectEntries(classTypeBreakdownAcc(a)), 5)]

\* x.toFixed(1) of a number that is not negative: the nearest tenth, the
\* larger one of two equally near
ToFixed1(x) ==
  IF x.t # "number" THEN JSToString(x)
  ELSE LET tenths == (2 * 10 * x.n + x.d) \div (2 * x.d)
       IN NatToString(tenths \div 10) \o <<".">> \o NatToString(tenths % 10)

\* the rows of the 'Class Type Performance' table:
\* sessionMetrics.classTypeBreakdown.map(([type, data]) => ({...}))
classTypePerformance(metrics) ==
  [i \in 1..Len(metrics.classTypeBreakdown) |->
     LET type == metrics.classTypeBreakdown[i][1]
         data == metrics.classTypeBreakdown[i][2]
     IN [classType |-> type,
         sessions |-> data.sessions,
         bookings |-> data.bookings,
         checkins |-> data.checkins,
         fillRate |-> IF Gt(data.bookings, Num(0))
                      THEN Add(Str(ToFixed1(Mul(Div(data.checkins, data.bookings), Num(100)))),
                               Str(<<"%">>))
                      ELSE Str(<<"0", "%">>)]]

\* payrollData.sort((a, b) => (b.totalCustomers || 0) - (a.totalCustomers || 0)):
\* the array itself, sorted in place
SortByCustomers(a) ==
  SortDesc(a, [i \in 1..Len(a) |-> Or(Get(a[i], "totalCustomers"), Num(0))])

\* ComputeTrainerMetrics without the `totalSessions > 0 ?` guard
ComputeTrainerMetricsUnguarded(payrollData) ==
  IF ~Truthy(Length(payrollData)) THEN Null
  ELSE LET a == payrollData.a
           totalSessions == SumOrZero(a, "totalSessions")
           totalCustomers == SumOrZero(a, "totalCustomers")
           top == Slice0(SortByCustomers(a), 5)
       IN [t |-> "object",
           totalTrainers |-> SetSize(MapField(a, "teacherId")),
           totalSessions |-> totalSessions,
           totalCustomers |-> totalCustomers,
           averageClassSize |-> Div(totalCustomers, totalSessions),
           topTrainers |-> [i \in 1..Len(top) |->
                              [name |-> Get(top[i], "teacherName"),
                               customers |-> Or(Get(top[i], "totalCustomers"), Num(0)),
                               sessions |-> Or(Get(top[i], "totalSessions"), Num(0)),
                               retention |-> Or(Get(top[i], "retention"), Str(NotAvailable))]]]

\* the callback of useMemo(..., [payrollData])
ComputeTrainerMetrics(payrollData) ==
  IF ~Truthy(Length(payrollData)) THEN Null
  ELSE LET a == payrollData.a
           totalSessions == SumOrZero(a, "totalSessions")
           totalCustomers == SumOrZero(a, "totalCustomers")
           top == Slice0(SortByCustomers(a), 5)
       IN [t |-> "object",
           totalTrainers |-> SetSize(MapField(a, "teacherId")),
           totalSessions |-> totalSessions,
           totalCustomers |-> totalCustomers,
           averageClassSize |-> IF Gt(totalSessions, Num(0))
                                THEN Div(totalCustomers, totalSessions)
                                ELSE Num(0),
           topTrainers |-> [i \in 1..Len(top) |->
                              [name |-> Get(top[i], "teacherName"),
                               customers |-> Or(Get(top[i], "totalCustomers"), Num(0)),
                               sessions |-> Or(Get(top[i], "totalSessions"), Num(0)),
                               retention |-> Or(Get(top[i], "retention"), Str(NotAvailable))]]]

\* payrollData as the trainerMetrics callback leaves it
PayrollAfterTrainerMetrics(payrollData) ==
  IF ~Truthy(Length(payrollData)) THEN payrollData
  ELSE Arr(SortByCustomers(payrollData.a))

\* the callback of useMemo(..., [clientData])
ComputeClientMetrics(clientData) ==
  IF ~Truthy(Length(clientData)) THEN Null
  ELSE LET a == clientData.a
           totalNewClients == Length(clientData)
           convertedClients == Num(CountEq(a, "conversionStatus", Converted))
           retainedClients == Num(CountEq(a, "retentionStatus", Retained))
       IN [t |-> "object",
           totalNewClients |-> totalNewClients,
           convertedClients |-> convertedClients,
           retainedClients |-> retainedClients,
           conversionRate |-> Mul(Div(convertedClients, totalNewClients), Num(100)),
           retentionRate |-> Mul(Div(retainedClients, totalNewClients), Num(100)),
           averageLTV |-> Div(SumOrZero(a, "ltv"), totalNewClients)]

(***************************************************************************)
(* part_001, the second ExecutiveSummarySection: values computed on every  *)
(* render from the hooks' data (undefined or an array).                    *)
(***************************************************************************)
\* totalRevenue without the trailing `|| 0`
totalRevenueNoDefault(salesData) ==
  IF salesData.t = "array" THEN SumOrZero(salesData.a, "paymentValue") ELSE Undefined

\* salesData?.reduce((sum, sale) => sum + (sale.paymentValue || 0), 0) || 0
totalRevenue(salesData) ==
  Or(IF salesData.t = "array" THEN SumOrZero(salesData.a, "paymentValue") ELSE Undefined,
     Num(0))

\* sessionsData?.length || 0
totalSessions(sessionsData) == Or(Length(sessionsData), Num(0))

\* payrollData?.length || 0
totalTrainers(payrollData) == Or(Length(payrollData), Num(0))

\* clientData?.length || 0
totalClients(clientData) == Or(Length(clientData), Num(0))

\* locationDataAcc without `if (!acc[location])`: every record starts its
\* group anew
RECURSIVE locationDataAccReset(_)
locationDataAccReset(a) ==
  IF a = <<>> THEN EmptyObject
  ELSE LET acc == locationDataAccReset(SubSeq(a, 1, Len(a) - 1))
           sale == a[Len(a)]
           location == Or(Get(sale, "calculatedLocation"), Str(Unknown))
           k == PropertyKey(location)
       IN SetProp(acc, k,
                  [name |-> location,
                   value |-> Or(Get(sale, "paymentValue"), Num(0)),
                   count |-> Num(1)])

\* the reduce of locationData
RECURSIVE locationDataAcc(_)
locationDataAcc(a) ==
  IF a = <<>> THEN EmptyObject
  ELSE LET acc == locationDataAcc(SubSeq(a, 1, Len(a) - 1))
           sale == a[Len(a)]
           location == Or(Get(sale, "calculatedLocation"), Str(Unknown))
           k == PropertyKey(location)
           acc1 == IF ~HasProp(acc, k)
                   THEN SetProp(acc, k, [name |-> location, value |-> Num(0), count |-> Num(0)])
                   ELSE acc
           g == Prop(acc1, k)
       IN SetProp(acc1, k,
                  [name |-> g.name,
                   value |-> Add(g.value, Or(Get(sale, "paymentValue"), Num(0))),
                   count |-> Add(g.count, Num(1))])

\* salesData?.reduce(...) || {}
locationData(salesData) ==
  IF salesData.t = "array" THEN locationDataAcc(salesData.a) ELSE EmptyObject

\* Object.values(locationData).slice(0, 4)
locations(salesData) == Slice0(ObjectValues(locationData(salesData)), 4)

\* the reduce of productData
RECURSIVE productDataAcc(_)
productDataAcc(a) ==
  IF a = <<>> THEN EmptyObject
  ELSE LET acc == productDataAcc(SubSeq(a, 1, Len(a) - 1))
           sale == a[Len(a)]
           product == Or(Get(sale, "cleanedProduct"), Str(Unknown))
           k == PropertyKey(product)
           acc1 == IF ~HasProp(acc, k)
                   THEN SetProp(acc, k, [name |-> product, revenue |-> Num(0), quantity |-> Num(0)])
                   ELSE acc
           g == Prop(acc1, k)
       IN SetProp(acc1, k,
                  [name |-> g.name,
                   revenue |-> Add(g.revenue, Or(Get(sale, "paymentValue"), Num(0))),
                   quantity |-> Add(g.quantity, Num(1))])

\* salesData?.reduce(...) || {}
productData(salesData) ==
  IF salesData.t = "array" THEN productDataAcc(salesData.a) ELSE EmptyObject

\* Object.values(productData).sort((a, b) => b.revenue - a.revenue).slice(0, 5)
topProducts(salesData) ==
  LET vs == ObjectValues(productData(salesData))
  IN Slice0(SortDesc(vs, [i \in 1..Len(vs) |-> vs[i].revenue]), 5)

\* the reduce of trainerData
RECURSIVE trainerDataAcc(_)
trainerDataAcc(a) ==
  IF a = <<>> THEN EmptyObject
  ELSE LET acc == trainerDataAcc(SubSeq(a, 1, Len(a) - 1))
           trainer == a[Len(a)]
           name == Or(Get(trainer, "teacherName"), Str(Unknown))
           k == PropertyKey(name)
           acc1 == IF ~HasProp(acc, k)
                   THEN SetProp(acc, k,
                                [name |-> name, sessions |-> Num(0), revenue |-> Num(0),
                                 students |-> Num(0), rawData |-> trainer])
                   ELSE acc
           g == Prop(acc1, k)
       IN SetProp(acc1, k,
                  [name |-> g.name,
                   sessions |-> Add(g.sessions, Or(Get(trainer, "totalSessions"), Num(0))),
                   revenue |-> Add(g.revenue, Or(Get(trainer, "totalPaid"), Num(0))),
                   students |-> Add(g.students, Or(Get(trainer, "totalCustomers"), Num(0))),
                   rawData |-> g.rawData])

\* payrollData?.reduce(...) || {}
trainerData(payrollData) ==
  IF payrollData.t = "array" THEN trainerDataAcc(payrollData.a) ELSE EmptyObject

\* Object.values(trainerData).sort((a, b) => b.revenue - a.revenue).slice(0, 5)
topTrainers(payrollData) ==
  LET vs == ObjectValues(trainerData(payrollData))
  IN Slice0(SortDesc(vs, [i \in 1..Len(vs) |-> vs[i].revenue]), 5)

\* the value of each location's <Progress>:
\* (location.value / Math.max(...locations.map(l => l.value))) * 100
locationProgress(salesData) ==
  LET ls == locations(salesData)
      max == MathMax([i \in 1..Len(ls) |-> ls[i].value])
  IN [i \in 1..Len(ls) |-> Mul(Div(ls[i].value, max), Num(100))]

\* 'Average Transaction': totalRevenue / (salesData?.length || 1)
averageTransaction(salesData) ==
  Div(totalRevenue(salesData), Or(Length(salesData), Num(1)))

\* 'Unique Customers': new Set(salesData?.map(s => s.memberId)).size
uniqueCustomers(salesData) ==
  IF salesData.t = "array" THEN SetSize(MapField(salesData.a, "memberId")) ELSE 0

\* the reduce of the 'Sales by Category' pie
RECURSIVE categoryDataAcc(_)
categoryDataAcc(a) ==
  IF a = <<>> THEN EmptyObject
  ELSE LET acc == categoryDataAcc(SubSeq(a, 1, Len(a) - 1))
           sale == a[Len(a)]
           category == Or(Get(sale, "cleanedCategory"), Str(Other))
           k == PropertyKey(category)
           acc1 == IF ~HasProp(acc, k)
                   THEN SetProp(acc, k, [name |-> category, value |-> Num(0)])
                   ELSE acc
           g == Prop(acc1, k)
       IN SetProp(acc1, k,
                  [name |-> g.name,
                   value |-> Add(g.value, Or(Get(sale, "paymentValue"), Num(0)))])

\* Object.values(salesData?.reduce(...) || {})
categoryData(salesData) ==
  ObjectValues(IF salesData.t = "array" THEN categoryDataAcc(salesData.a) ELSE EmptyObject)

(***************************************************************************)
(* The records the data source can hold. A field that is absent from a     *)
(* record is absent from the function's domain.                            *)
(***************************************************************************)
NoFields == [f \in {} |-> Undefined]

Opt(f, v) == IF v = Undefined THEN NoFields ELSE f :> v

GroupKeys == {Undefined, Str(<<"A">>), Str(<<"1">>)}
Amounts == {Undefined, Num(1), Num(2)}

\* a sale: its product and category carry the location's key, the sales of
\* location A carry VAT, and the payments of 2 are the second member's
SaleRecords ==
  { Opt("calculatedLocation", k) @@ Opt("cleanedProduct", k) @@ Opt("cleanedCategory", k)
      @@ Opt("paymentValue", v) @@ Opt("paymentVAT", IF k = Str(<<"A">>) THEN Num(1) ELSE Undefined)
      @@ ("memberId" :> (IF v = Num(2) THEN Str(<<"m", "2">>) ELSE Str(<<"m", "1">>))) :
    k \in GroupKeys, v \in Amounts }

\* a session: the sessions with a count were half full
SessionRecords ==
  { Opt("cleanedClass", c) @@ Opt("classType", y) @@ Opt("checkedInCount", n)
      @@ Opt("fillPercentage", IF n = Undefined THEN Undefined ELSE Num(50))
      @@ Opt("capacity", IF n = Undefined THEN Undefined ELSE Num(4)) :
    c \in {Undefined, Str(<<"B">>)}, y \in {Undefined, Str(<<"1">>)}, n \in {Undefined, Num(2)} }

\* a payroll row: the better paid rows are those with fewer customers, and the
\* rows with two customers carry no session count
PayrollRecords ==
  { Opt("teacherName", k) @@ ("teacherId" :> (IF k = Undefined THEN Str(<<"t">>) ELSE k))
      @@ Opt("totalCustomers", n)
      @@ Opt("totalPaid", IF n = Num(1) THEN Num(2) ELSE IF n = Num(2) THEN Num(1) ELSE Undefined)
      @@ Opt("totalSessions", IF n = Num(1) THEN Num(1) ELSE Undefined) :
    k \in GroupKeys, n \in Amounts }

ClientRecords ==
  { ("conversionStatus" :> c) @@ Opt("retentionStatus", r)
      @@ Opt("ltv", IF c = Str(Converted) THEN Num(3) ELSE Undefined) :
    c \in {Str(Converted), Str(<<"c", "o", "n", "v", "e", "r", "t", "e", "d">>)},
    r \in {Undefined, Str(Retained)} }

Hooks == {"sales", "sessions", "payroll", "newClient"}

Records(h) ==
  CASE h = "sales" -> SaleRecords
    [] h = "sessions" -> SessionRecords
    [] h = "payroll" -> PayrollRecords
    [] h = "newClient" -> ClientRecords

\* the arrays of at most n records
ArraysUpTo(h, n) == UNION {[1..l -> Records(h)] : l \in 0..n}

(***************************************************************************)
(* State.                                                                  *)
(***************************************************************************)
Tsx == "ExecutiveSummarySection.tsx"
P1 == "part_001"
P0 == "part_000"

VARIABLES
  component,         \* the component that is mounted
  today,             \* the local date the clock reads
  delivered,         \* per hook: the array the data source returned (undefined before)
  hook,              \* per hook: the { data, loading, error } the component reads
  filters,           \* ExecutiveSummarySection.tsx: useState<FilterOptions>
  salesMetrics,      \* ExecutiveSummarySection.tsx: the memoised values
  sessionMetrics,
  trainerMetrics,
  clientMetrics,
  memoRan,           \* the useMemo callbacks the latest render ran
  selectedTab,       \* part_001: useState
  drillDownData,
  drillDownType,
  isDrillDownOpen,
  openCall,          \* history: the arguments of the latest handleDrillDown call,
                     \* null when there was none or the modal was closed since
  discountFilters,   \* part_000: useState
  isFilterCollapsed,
  showSourceData,
  toggles            \* history: the calls of toggleFilterCollapse so far, modulo 4

hookVars == <<component, today, delivered, hook>>
tsxVars == <<filters, salesMetrics, sessionMetrics, trainerMetrics, clientMetrics, memoRan>>
p1Vars == <<selectedTab, drillDownData, drillDownType, isDrillDownOpen, openCall>>
p0Vars == <<discountFilters, isFilterCollapsed, showSourceData, toggles>>
vars == <<hookVars, tsxVars, p1Vars, p0Vars>>

\* the hooks a component calls
HooksOf(c) == IF c = P0 THEN {"sales"} ELSE Hooks

\* useState<FilterOptions>({...})
InitialFilters ==
  [dateRange |-> [start |-> "", end |-> ""],
   location |-> <<>>, category |-> <<>>, product |-> <<>>,
   soldBy |-> <<>>, paymentMethod |-> <<>>]

\* a data hook before its fetch has ended
Pending == [data |-> Undefined, loading |-> Bool(TRUE), error |-> Null]

\* the date of the mount when the date is not what is looked at
MountDate == DateOf(2024, 5, 15)

\* a component of cs is mounted on a date of ds
Mounted(cs, ds) ==
  /\ component \in cs
  /\ today \in ds
  /\ delivered = [h \in Hooks |-> Undefined]
  /\ hook = [h \in Hooks |-> Pending]
  /\ filters = InitialFilters
  /\ salesMetrics = ComputeSalesMetrics(Undefined, today)
  /\ sessionMetrics = ComputeSessionMetrics(Undefined)
  /\ trainerMetrics = ComputeTrainerMetrics(Undefined)
  /\ clientMetrics = ComputeClientMetrics(Undefined)
  /\ memoRan = IF component = Tsx THEN Hooks ELSE {}
  /\ selectedTab = "overview"
  /\ drillDownData = Null
  /\ drillDownType = "metric"
  /\ isDrillDownOpen = FALSE
  /\ openCall = Null
  /\ discountFilters = EmptyObject
  /\ isFilterCollapsed = FALSE
  /\ toggles = 0
  /\ showSourceData = FALSE

Init == Mounted({Tsx, P1, P0}, {MountDate})

\* the number of records delivered so far
Delivered(h) == IF delivered[h].t = "array" THEN Len(delivered[h].a) ELSE 0
DeliveredTotal ==
  Delivered("sales") + Delivered("sessions") + Delivered("payroll") + Delivered("newClient")

(***************************************************************************)
(* The data hooks. A fetch ends with an array or with an error; the        *)
(* component then renders, and ExecutiveSummarySection.tsx runs the        *)
(* useMemo callback whose dependency (the hook's array) has changed.       *)
(***************************************************************************)
FetchSuccess(h, arr) ==
  /\ h \in HooksOf(component)
  /\ hook[h].loading = Bool(TRUE)
  /\ delivered' = [delivered EXCEPT ![h] = Arr(arr)]
  /\ hook' = [hook EXCEPT ![h] =
                [data |-> IF component = Tsx /\ h = "payroll"
                          THEN PayrollAfterTrainerMetrics(Arr(arr))
                          ELSE Arr(arr),
                 loading |-> Bool(FALSE),
                 error |-> Null]]
  /\ salesMetrics' = IF component = Tsx /\ h = "sales"
                     THEN ComputeSalesMetrics(Arr(arr), today) ELSE salesMetrics
  /\ sessionMetrics' = IF component = Tsx /\ h = "sessions"
                       THEN ComputeSessionMetrics(Arr(arr)) ELSE sessionMetrics
  /\ trainerMetrics' = IF component = Tsx /\ h = "payroll"
                       THEN ComputeTrainerMetrics(Arr(arr)) ELSE trainerMetrics
  /\ clientMetrics' = IF component = Tsx /\ h = "newClient"
                      THEN ComputeClientMetrics(Arr(arr)) ELSE clientMetrics
  /\ memoRan' = IF component = Tsx THEN {h} ELSE {}
  /\ UNCHANGED <<component, today, filters, p1Vars, p0Vars>>

FetchFailure(h, e) ==
  /\ h \in HooksOf(component)
  /\ hook[h].loading = Bool(TRUE)
  /\ hook' = [hook EXCEPT ![h] = [data |-> hook[h].data, loading |-> Bool(FALSE), error |-> e]]
  /\ memoRan' = {}
  /\ UNCHANGED <<component, today, delivered, filters, salesMetrics, sessionMetrics,
                 trainerMetrics, clientMetrics, p1Vars, p0Vars>>

FailedToLoad == <<"F", "a", "i", "l", "e", "d">>

\* DiscountsSection renders with any result of useSalesData() the contract
\* { data, loading, error } allows
useSalesData(result) ==
  /\ component = P0
  /\ hook' = [hook EXCEPT !["sales"] = result]
  /\ delivered' = [delivered EXCEPT !["sales"] = result.data]
  /\ UNCHANGED <<component, today, tsxVars, p1Vars, p0Vars>>

(***************************************************************************)
(* What the mounted component renders.                                     *)
(***************************************************************************)
\* ExecutiveSummarySection.tsx:
\* salesLoading || sessionsLoading || payrollLoading || clientLoading
isLoading ==
  Or(Or(Or(Get(hook["sales"], "loading"), Get(hook["sessions"], "loading")),
        Get(hook["payroll"], "loading")),
     Get(hook["newClient"], "loading"))

\* part_001 reads `isLoading` from the hooks' results
isLoadingP1 ==
  Or(Or(Or(Get(hook["sales"], "isLoading"), Get(hook["sessions"], "isLoading")),
        Get(hook["payroll"], "isLoading")),
     Get(hook["newClient"], "isLoading"))

UnknownError ==
  <<"A", "n", " ", "u", "n", "k", "n", "o", "w", "n", " ", "e", "r", "r", "o", "r",
    " ", "o", "c", "c", "u", "r", "r", "e", "d">>

\* DiscountsView with `if (error)` placed before `if (loading)`
DiscountsViewErrorFirst ==
  LET loading == Get(hook["sales"], "loading")
      error == Get(hook["sales"], "error")
  IN IF Truthy(error)
     THEN [kind |-> "error",
           errorMessage |-> IF error.t = "string" THEN error.s ELSE UnknownError]
     ELSE IF Truthy(loading) THEN [kind |-> "loading"] ELSE [kind |-> "content"]

\* part_000: DiscountsSection's three returns
DiscountsView ==
  LET loading == Get(hook["sales"], "loading")
      error == Get(hook["sales"], "error")
  IN IF Truthy(loading) THEN [kind |-> "loading"]
     ELSE IF Truthy(error)
          THEN [kind |-> "error",
                errorMessage |-> IF error.t = "string" THEN error.s ELSE UnknownError]
          ELSE [kind |-> "content"]

\* the two returns of each ExecutiveSummarySection
View ==
  CASE component = Tsx ->
         IF Truthy(isLoading) THEN [kind |-> "loading"] ELSE [kind |-> "dashboard"]
    [] component = P1 ->
         IF Truthy(isLoadingP1) THEN [kind |-> "loading"] ELSE [kind |-> "dashboard"]
    [] component = P0 -> DiscountsView

(***************************************************************************)
(* ExecutiveSummarySection.tsx: the filter state. No useMemo lists filters *)
(* among its dependencies, so the render after a change runs no callback.  *)
(***************************************************************************)
FilterChoices ==
  { InitialFilters,
    [InitialFilters EXCEPT !.dateRange = [start |-> "2024-01-01", end |-> "2024-01-31"]],
    [InitialFilters EXCEPT !.location = <<"A">>],
    [InitialFilters EXCEPT !.category = <<"Memberships">>],
    [InitialFilters EXCEPT !.product = <<"Barre 57">>],
    [InitialFilters EXCEPT !.soldBy = <<"Front desk">>],
    [InitialFilters EXCEPT !.paymentMethod = <<"Card">>],
    [InitialFilters EXCEPT !.dateRange = [start |-> "2024-01-01", end |-> "2024-01-31"],
                           !.location = <<"A">>] }

\* <AutoCloseFilterSection onFiltersChange={setFilters} />
setFilters(newFilters) ==
  /\ component = Tsx
  /\ View.kind = "dashboard"
  /\ filters' = newFilters
  /\ memoRan' = {}
  /\ UNCHANGED <<hookVars, salesMetrics, sessionMetrics, trainerMetrics, clientMetrics,
                 p1Vars, p0Vars>>

\* resetFilters with a literal that leaves the date range as it is
resetFiltersKeepDateRange ==
  /\ component = Tsx
  /\ View.kind = "dashboard"
  /\ filters' = [dateRange |-> filters.dateRange,
                 location |-> <<>>, category |-> <<>>, product |-> <<>>,
                 soldBy |-> <<>>, paymentMethod |-> <<>>]
  /\ memoRan' = {}
  /\ UNCHANGED <<hookVars, salesMetrics, sessionMetrics, trainerMetrics, clientMetrics,
                 p1Vars, p0Vars>>

\* const resetFilters = () => { setFilters({...}) }
resetFilters ==
  /\ component = Tsx
  /\ View.kind = "dashboard"
  /\ filters' = [dateRange |-> [start |-> "", end |-> ""],
                 location |-> <<>>, category |-> <<>>, product |-> <<>>,
                 soldBy |-> <<>>, paymentMethod |-> <<>>]
  /\ memoRan' = {}
  /\ UNCHANGED <<hookVars, salesMetrics, sessionMetrics, trainerMetrics, clientMetrics,
                 p1Vars, p0Vars>>

(***************************************************************************)
(* part_001: tabs and the drill-down modal.                                *)
(***************************************************************************)
TabValues == {"overview", "sales", "sessions", "trainers", "clients"}

\* salesData?.filter(s => s.cleanedProduct === name)
SalesOfProduct(salesData, name) ==
  IF salesData.t = "array"
  THEN Arr(SelectSeq(salesData.a, LAMBDA r : Get(r, "cleanedProduct") = name))
  ELSE Undefined

\* the arguments of the handleDrillDown calls the rendered tab offers
DrillDownCalls ==
  LET salesData == hook["sales"].data
      products == topProducts(salesData)
      trainers == topTrainers(hook["payroll"].data)
  IN CASE selectedTab = "overview" ->
            { <<[t |-> "object",
                 name |-> products[i].name,
                 totalValue |-> products[i].revenue,
                 totalTransactions |-> products[i].quantity,
                 metricValue |-> products[i].revenue,
                 rawData |-> SalesOfProduct(salesData, products[i].name)], "product">> :
              i \in 1..Len(products) }
            \cup
            { <<[t |-> "object",
                 name |-> trainers[i].name,
                 totalValue |-> trainers[i].revenue,
                 totalSessions |-> trainers[i].sessions,
                 totalCustomers |-> trainers[i].students,
                 metricValue |-> trainers[i].revenue,
                 rawData |-> trainers[i].rawData], "trainer">> :
              i \in 1..Len(trainers) }
       [] selectedTab = "sales" ->
            { <<[t |-> "object", title |-> m[1], metricValue |-> m[2], totalValue |-> m[2],
                 rawData |-> salesData], "metric">> :
              m \in { <<"Total Revenue", totalRevenue(salesData)>>,
                      <<"Total Transactions", Or(Length(salesData), Num(0))>>,
                      <<"Average Transaction", averageTransaction(salesData)>>,
                      <<"Unique Customers", Num(uniqueCustomers(salesData))>>,
                      <<"Revenue Growth", Rat(25, 2)>>,
                      <<"Top Category", Str(<<"M", "e", "m", "b", "e", "r", "s", "h", "i", "p", "s">>)>> } }
       [] selectedTab = "trainers" ->
            { <<[t |-> "object", name |-> trainers[i].name, sessions |-> trainers[i].sessions,
                 revenue |-> trainers[i].revenue, students |-> trainers[i].students,
                 rawData |-> trainers[i].rawData], "trainer">> :
              i \in 1..Len(trainers) }
       [] OTHER -> {}

\* handleDrillDown without setDrillDownType(type)
handleDrillDownKeepType(data, type) ==
  /\ component = P1
  /\ View.kind = "dashboard"
  /\ <<data, type>> \in DrillDownCalls
  /\ drillDownData' = data
  /\ isDrillDownOpen' = TRUE
  /\ openCall' = <<data, type>>
  /\ UNCHANGED <<hookVars, tsxVars, selectedTab, drillDownType, p0Vars>>

handleDrillDown(data, type) ==
  /\ component = P1
  /\ View.kind = "dashboard"
  /\ <<data, type>> \in DrillDownCalls
  /\ drillDownData' = data
  /\ drillDownType' = type
  /\ isDrillDownOpen' = TRUE
  /\ openCall' = <<data, type>>
  /\ UNCHANGED <<hookVars, tsxVars, selectedTab, p0Vars>>

\* closeDrillDown with an onClose that also calls setDrillDownData(null)
closeDrillDownAndClear ==
  /\ component = P1
  /\ View.kind = "dashboard"
  /\ isDrillDownOpen
  /\ isDrillDownOpen' = FALSE
  /\ drillDownData' = Null
  /\ openCall' = Null
  /\ UNCHANGED <<hookVars, tsxVars, selectedTab, drillDownType, p0Vars>>

\* <DrillDownModal onClose={() => setIsDrillDownOpen(false)} />
closeDrillDown ==
  /\ component = P1
  /\ View.kind = "dashboard"
  /\ isDrillDownOpen
  /\ isDrillDownOpen' = FALSE
  /\ openCall' = Null
  /\ UNCHANGED <<hookVars, tsxVars, selectedTab, drillDownData, drillDownType, p0Vars>>

\* <Tabs value={selectedTab} onValueChange={setSelectedTab}>
setSelectedTab(tab) ==
  /\ component = P1
  /\ View.kind = "dashboard"
  /\ selectedTab' = tab
  /\ UNCHANGED <<hookVars, tsxVars, drillDownData, drillDownType, isDrillDownOpen, openCall,
                 p0Vars>>

(***************************************************************************)
(* part_000: DiscountsSection's local state.                               *)
(***************************************************************************)
DiscountFilterChoices ==
  {EmptyObject, <<<<"location", "A">>>>, <<<<"discountType", "Promo">>>>}

handleFiltersChange(newFilters) ==
  /\ component = P0
  /\ View.kind = "content"
  /\ discountFilters' = newFilters
  /\ UNCHANGED <<hookVars, tsxVars, p1Vars, isFilterCollapsed, showSourceData, toggles>>

\* toggleFilterCollapse with setIsFilterCollapsed(true)
toggleFilterCollapseToTrue ==
  /\ component = P0
  /\ View.kind = "content"
  /\ isFilterCollapsed' = TRUE
  /\ toggles' = (toggles + 1) % 4
  /\ UNCHANGED <<hookVars, tsxVars, p1Vars, discountFilters, showSourceData>>

\* setIsFilterCollapsed(!isFilterCollapsed), each call in a render of its own
toggleFilterCollapse ==
  /\ component = P0
  /\ View.kind = "content"
  /\ isFilterCollapsed' = ~isFilterCollapsed
  /\ toggles' = (toggles + 1) % 4
  /\ UNCHANGED <<hookVars, tsxVars, p1Vars, discountFilters, showSourceData>>

\* the 'View Source Data' button: setShowSourceData(true)
viewSourceData ==
  /\ component = P0
  /\ View.kind = "content"
  /\ showSourceData' = TRUE
  /\ UNCHANGED <<hookVars, tsxVars, p1Vars, discountFilters, isFilterCollapsed, toggles>>

\* <SourceDataModal onOpenChange={setShowSourceData} />
setShowSourceData(open) ==
  /\ component = P0
  /\ View.kind = "content"
  /\ showSourceData
  /\ showSourceData' = open
  /\ UNCHANGED <<hookVars, tsxVars, p1Vars, discountFilters, isFilterCollapsed, toggles>>

(***************************************************************************)
(* Specifications.                                                         *)
(*   Spec   : the data hooks deliver any arrays of MaxRecords records in   *)
(*            all, or fail; the components aggregate and render.           *)
(*   SpecUI : the hooks deliver an empty array or a sample one, or fail;   *)
(*            the user acts on what is rendered.                           *)
(*   SpecCells : the hooks deliver sheets whose numeric cells hold any     *)
(*            kind of value.                                               *)
(*   SpecDates : ExecutiveSummarySection.tsx is mounted on one of several  *)
(*            dates and is handed dated sales.                             *)
(*   SpecDiscounts : DiscountsSection renders with any result of its hook  *)
(*            and the user acts on what is rendered.                       *)
(***************************************************************************)
Next ==
  \/ \E h \in Hooks : \E arr \in ArraysUpTo(h, MaxRecords - DeliveredTotal) :
       FetchSuccess(h, arr)
  \/ \E h \in Hooks : FetchFailure(h, Str(FailedToLoad))

Spec == Init /\ [][Next]_vars

\* a sample array of each sheet
SampleArray(h) ==
  CASE h = "sales" ->
         << ("calculatedLocation" :> Str(<<"B">>)) @@ ("cleanedProduct" :> Str(<<"P">>))
              @@ ("paymentValue" :> Num(1)) @@ ("memberId" :> Str(<<"m", "1">>)),
            ("calculatedLocation" :> Str(<<"A">>)) @@ ("cleanedProduct" :> Str(<<"Q">>))
              @@ ("paymentValue" :> Num(2)) @@ ("memberId" :> Str(<<"m", "2">>)) >>
    [] h = "sessions" ->
         << ("cleanedClass" :> Str(<<"B">>)) @@ ("checkedInCount" :> Num(2)) >>
    [] h = "payroll" ->
         << ("teacherName" :> Str(<<"T">>)) @@ ("teacherId" :> Str(<<"t">>))
              @@ ("totalCustomers" :> Num(1)) @@ ("totalPaid" :> Num(2)),
            ("teacherName" :> Str(<<"S">>)) @@ ("teacherId" :> Str(<<"s">>))
              @@ ("totalCustomers" :> Num(2)) @@ ("totalPaid" :> Num(1)) >>
    [] h = "newClient" ->
         << ("conversionStatus" :> Str(Converted)) @@ ("ltv" :> Num(3)) >>

\* an Error object the hook may hand over instead of a message
ErrorObject == Obj(<<<<"message", Str(FailedToLoad)>>>>)

NextUI ==
  \/ \E h \in Hooks : \E arr \in {<<>>, SampleArray(h)} : FetchSuccess(h, arr)
  \/ \E h \in Hooks : \E e \in {Str(FailedToLoad), ErrorObject} : FetchFailure(h, e)
  \/ \E f \in FilterChoices : setFilters(f)
  \/ resetFilters
  \/ \E c \in DrillDownCalls : handleDrillDown(c[1], c[2])
  \/ closeDrillDown
  \/ \E tab \in TabValues : setSelectedTab(tab)
  \/ \E f \in DiscountFilterChoices : handleFiltersChange(f)
  \/ toggleFilterCollapse
  \/ viewSourceData
  \/ \E open \in BOOLEAN : setShowSourceData(open)

SpecUI == Init /\ [][NextUI]_vars

\* what a numeric cell of a sheet can hold: nothing, null, NaN, text, a number
CellValues == {Undefined, Null, NaN, Str(<<"n", "/", "a">>), Num(1)}

\* the records of a sheet whose numeric cells hold any of these
CellRecords(h) ==
  CASE h = "sales" ->
         { ("calculatedLocation" :> Str(<<"A">>)) @@ ("memberId" :> Str(<<"m", "1">>))
             @@ Opt("paymentValue", v) : v \in CellValues }
    [] h = "sessions" ->
         { ("cleanedClass" :> Str(<<"B">>)) @@ Opt("checkedInCount", v) : v \in CellValues }
    [] h = "payroll" ->
         { ("teacherName" :> Str(<<"T">>)) @@ ("teacherId" :> Str(<<"t">>))
             @@ Opt("totalPaid", v) @@ Opt("totalCustomers", v) : v \in CellValues }
    [] h = "newClient" ->
         { ("conversionStatus" :> Str(Converted)) @@ Opt("ltv", v) : v \in CellValues }

NextCells ==
  \E h \in Hooks : \E l \in 0..(MaxRecords - DeliveredTotal) : \E arr \in [1..l -> CellRecords(h)] :
    FetchSuccess(h, arr)

\* the hooks deliver sheets whose numeric cells hold any kind of value
SpecCells == Init /\ [][NextCells]_vars

\* the results of a data hook: any data, loading or not, and as error nothing,
\* text (empty too), a status code or an Error object
HookResults ==
  [data : {Undefined, Arr(<<>>), Arr(SampleArray("sales"))},
   loading : {Bool(TRUE), Bool(FALSE)},
   error : {Null, Undefined, Str(<<>>), Num(0), Str(FailedToLoad), Num(404), ErrorObject}]

NextDiscounts ==
  \/ \E result \in HookResults : useSalesData(result)
  \/ \E f \in DiscountFilterChoices : handleFiltersChange(f)
  \/ toggleFilterCollapse
  \/ viewSourceData
  \/ \E open \in BOOLEAN : setShowSourceData(open)

\* DiscountsSection is mounted, renders with any hook result and is acted on
SpecDiscounts == Mounted({P0}, {MountDate}) /\ [][NextDiscounts]_vars

\* the dates of a mount: mid-month, and days 29 to 31
MountDates == {MountDate, DateOf(2024, 2, 31), DateOf(2023, 2, 29), DateOf(2024, 0, 31)}

PaymentDates ==
  { Undefined,
    Str(<<"n", "/", "a">>),
    Str(<<"2", "0", "2", "4", "-", "0", "2", "-", "1", "5", "T", "1", "2", ":", "0", "0">>),
    Str(<<"2", "0", "2", "3", "-", "1", "1", "-", "3", "0", "T", "0", "9", ":", "3", "0">>),
    Str(<<"2", "0", "2", "2", "-", "0", "1", "-", "0", "1", "T", "0", "0", ":", "0", "0">>) }

\* sales with a payment date
DatedSaleRecords ==
  { ("calculatedLocation" :> Str(<<"A">>)) @@ Opt("paymentDate", p) @@ ("paymentValue" :> v)
      @@ ("memberId" :> (IF v = Num(2) THEN Str(<<"m", "2">>) ELSE Str(<<"m", "1">>))) :
    p \in PaymentDates, v \in {Num(1), Num(2)} }

NextDates ==
  \E l \in 0..(MaxRecords - DeliveredTotal) : \E arr \in [1..l -> DatedSaleRecords] :
    FetchSuccess("sales", arr)

\* ExecutiveSummarySection.tsx is mounted on any of the dates and is handed
\* dated sales
SpecDates == Mounted({Tsx}, MountDates) /\ [][NextDates]_vars

(***************************************************************************)
(* Properties.                                                             *)
(***************************************************************************)
DataOf(h) == hook[h].data

\* the array a hook was handed, empty when it was handed none
Input(h) == IF delivered[h].t = "array" THEN delivered[h].a ELSE <<>>

\* the arithmetic sum of field f over the records whose index is in I,
\* a record without the field contributing 0
RECURSIVE SumOver(_, _, _)
SumOver(a, f, I) ==
  IF I = {} THEN 0
  ELSE LET i == CHOOSE j \in I : TRUE
       IN (IF f \in DOMAIN a[i] THEN a[i][f].n ELSE 0) + SumOver(a, f, I \ {i})

ArithmeticSum(a, f) == SumOver(a, f, 1..Len(a))

\* the group a record belongs to: its key, or the sentinel when it has none
GroupOf(r, f, sentinel) ==
  IF f \in DOMAIN r /\ r[f].s # <<>> THEN r[f].s ELSE sentinel

\* the indices of the records of group k
Members(a, f, sentinel, k) == {i \in 1..Len(a) : GroupOf(a[i], f, sentinel) = k}

\* the index at which group k is first met
FirstMet(a, f, sentinel, k) ==
  CHOOSE i \in Members(a, f, sentinel, k) : \A j \in Members(a, f, sentinel, k) : i <= j

\* C1: every sum-based total is the arithmetic sum of its field over all the
\* records, a record without the field contributing 0
C1_SumTotals ==
  /\ component = Tsx /\ Input("sales") # <<>> =>
       /\ salesMetrics.t = "object"
       /\ salesMetrics.totalRevenue = Num(ArithmeticSum(Input("sales"), "paymentValue"))
       /\ salesMetrics.totalVAT = Num(ArithmeticSum(Input("sales"), "paymentVAT"))
  /\ component = Tsx /\ Input("sessions") # <<>> =>
       /\ sessionMetrics.t = "object"
       /\ sessionMetrics.totalBookings = Num(ArithmeticSum(Input("sessions"), "checkedInCount"))
       /\ sessionMetrics.totalCheckins = Num(ArithmeticSum(Input("sessions"), "checkedInCount"))
  /\ component = Tsx /\ Input("payroll") # <<>> =>
       /\ trainerMetrics.t = "object"
       /\ trainerMetrics.totalSessions = Num(ArithmeticSum(Input("payroll"), "totalSessions"))
       /\ trainerMetrics.totalCustomers = Num(ArithmeticSum(Input("payroll"), "totalCustomers"))
  /\ component = P1 =>
       totalRevenue(DataOf("sales")) = Num(ArithmeticSum(Input("sales"), "paymentValue"))

\* two sales, one of them without paymentValue, have been totalled
C1_Witness ==
  /\ component = Tsx
  /\ Len(Input("sales")) = 2
  /\ \E i \in 1..2 : "paymentValue" \notin DOMAIN Input("sales")[i]
  /\ salesMetrics.t = "object"
  /\ salesMetrics.totalRevenue = Num(2)
  /\ salesMetrics.totalVAT = Num(1)

\* the group summaries are one per group, each with the sum and the number of
\* its records
GroupsAgree(a, f, sentinel, groups, sumOf(_), countOf(_)) ==
  /\ Len(groups) = Cardinality({GroupOf(a[i], f, sentinel) : i \in 1..Len(a)})
  /\ \A i \in 1..Len(a) : \E g \in 1..Len(groups) :
       groups[g].name = GroupOf(a[i], f, sentinel)
  /\ \A g \in 1..Len(groups) :
       /\ sumOf(groups[g]) =
            Num(SumOver(a, "paymentValue", Members(a, f, sentinel, groups[g].name)))
       /\ countOf(groups[g]) = Num(Cardinality(Members(a, f, sentinel, groups[g].name)))

\* the name of a group summary as a string
Named(groups) == [i \in 1..Len(groups) |-> [groups[i] EXCEPT !.name = @.s]]

RECURSIVE EncounterOrder(_)
EncounterOrder(keys) ==
  IF keys = <<>> THEN <<>>
  ELSE LET before == EncounterOrder(SubSeq(keys, 1, Len(keys) - 1))
           k == keys[Len(keys)]
       IN IF \E i \in 1..Len(before) : before[i] = k THEN before ELSE Append(before, k)

GroupKeysOf(a, f, sentinel) == [i \in 1..Len(a) |-> GroupOf(a[i], f, sentinel)]

\* the class type of a session: cleanedClass, else classType, else 'Unknown'
ClassTypeOf(r) ==
  IF "cleanedClass" \in DOMAIN r /\ r.cleanedClass.s # <<>> THEN r.cleanedClass.s
  ELSE GroupOf(r, "classType", Unknown)

\* the first index at which record r stands in array a
Position(a, r) == CHOOSE i \in 1..Len(a) : a[i] = r /\ \A j \in 1..Len(a) : a[j] = r => i <= j

\* a ranked list of group summaries of array a: at most 5 entries, in
\* non-increasing order of the ranking field, holding the largest groups, equal
\* values in the order their groups are first met in a
RankedGroups(list, all, a, f, rank(_)) ==
  /\ Len(list) = (IF Len(all) < 5 THEN Len(all) ELSE 5)
  /\ \A i, j \in 1..Len(list) : i < j => ~Gt(rank(list[j]), rank(list[i]))
  /\ \A i \in 1..Len(list) : \A g \in 1..Len(all) :
       (\A j \in 1..Len(list) : list[j].name # all[g].name) => ~Gt(rank(all[g]), rank(list[i]))
  /\ \A i, j \in 1..Len(list) :
       i < j /\ rank(list[i]) = rank(list[j]) =>
         FirstMet(a, f, Unknown, list[i].name.s) < FirstMet(a, f, Unknown, list[j].name.s)

\* C3: every ranked list has at most 5 entries, in non-increasing order of the
\* ranking field, holds the 5 largest groups, and keeps entries of equal rank
\* in the order they are first met in the input
C3_RankedLists ==
  /\ component = P1 =>
       /\ RankedGroups(topProducts(DataOf("sales")), ObjectValues(productData(DataOf("sales"))),
                       Input("sales"), "cleanedProduct", LAMBDA g : g.revenue)
       /\ RankedGroups(topTrainers(DataOf("payroll")), ObjectValues(trainerData(DataOf("payroll"))),
                       Input("payroll"), "teacherName", LAMBDA g : g.revenue)
  /\ component = Tsx /\ trainerMetrics.t = "object" =>
       LET top == trainerMetrics.topTrainers
           sorted == DataOf("payroll").a
       IN /\ Len(top) = (IF Len(sorted) < 5 THEN Len(sorted) ELSE 5)
          /\ \A i, j \in 1..Len(top) : i < j => ~Gt(top[j].customers, top[i].customers)
          /\ \A i, j \in 1..Len(sorted) :
               /\ i < j
               /\ sorted[i] # sorted[j]
               /\ Or(Get(sorted[i], "totalCustomers"), Num(0))
                    = Or(Get(sorted[j], "totalCustomers"), Num(0))
               => Position(Input("payroll"), sorted[i]) < Position(Input("payroll"), sorted[j])

\* C4: without a ranking step the group summaries stand in the order their
\* keys are first met in the input, whatever the keys; locations holds the
\* first 4 of them and classTypeBreakdown the first 5
C4_EncounterOrder ==
  /\ component = P1 =>
       LET ls == locations(DataOf("sales"))
       IN [i \in 1..Len(ls) |-> ls[i].name.s]
            = Slice0(EncounterOrder(GroupKeysOf(Input("sales"), "calculatedLocation", Unknown)), 4)
  /\ component = Tsx /\ salesMetrics.t = "object" =>
       [i \in 1..Len(salesMetrics.locationBreakdown) |-> salesMetrics.locationBreakdown[i].name]
         = EncounterOrder(GroupKeysOf(Input("sales"), "calculatedLocation", Unknown))
  /\ component = Tsx /\ sessionMetrics.t = "object" =>
       [i \in 1..Len(sessionMetrics.classTypeBreakdown) |-> sessionMetrics.classTypeBreakdown[i][1]]
         = Slice0(EncounterOrder([i \in 1..Len(Input("sessions")) |->
                                    ClassTypeOf(Input("sessions")[i])]), 5)

\* C5: no average or rate is the result of a division by zero: each is a
\* finite number whenever it is computed, and 0 when its denominator is 0
C5_NoDivisionByZero ==
  /\ component = Tsx /\ salesMetrics.t = "object" =>
       /\ IsFinite(salesMetrics.averageTicketValue)
       /\ salesMetrics.totalTransactions # Num(0)
  /\ component = Tsx /\ sessionMetrics.t = "object" =>
       /\ IsFinite(sessionMetrics.averageFillRate)
       /\ sessionMetrics.totalSessions # Num(0)
       /\ IsFinite(sessionMetrics.attendanceRate)
       /\ sessionMetrics.totalBookings = Num(0) => sessionMetrics.attendanceRate = Num(0)
  /\ component = Tsx /\ trainerMetrics.t = "object" =>
       /\ IsFinite(trainerMetrics.averageClassSize)
       /\ trainerMetrics.totalSessions = Num(0) => trainerMetrics.averageClassSize = Num(0)
  /\ component = Tsx /\ clientMetrics.t = "object" =>
       /\ IsFinite(clientMetrics.averageLTV)
       /\ IsFinite(clientMetrics.conversionRate)
       /\ IsFinite(clientMetrics.retentionRate)
       /\ clientMetrics.totalNewClients # Num(0)
  /\ component = P1 =>
       /\ IsFinite(averageTransaction(DataOf("sales")))
       /\ Input("sales") = <<>> => averageTransaction(DataOf("sales")) = Num(0)

\* payroll rows with customers and no session count: the guarded average is 0
C5_Witness ==
  /\ component = Tsx
  /\ trainerMetrics.t = "object"
  /\ trainerMetrics.totalSessions = Num(0)
  /\ Gt(trainerMetrics.totalCustomers, Num(0))
  /\ trainerMetrics.averageClassSize = Num(0)

\* C6: the percentage of every location's progress bar is a number, and is 0
\* when the largest location value is 0
C6_ProgressDefined ==
  component = P1 =>
    LET ls == locations(DataOf("sales"))
        ps == locationProgress(DataOf("sales"))
    IN \A i \in 1..Len(ps) :
         /\ IsFinite(ps[i])
         /\ MathMax([j \in 1..Len(ls) |-> ls[j].value]) = Num(0) => ps[i] = Num(0)

\* the hook has handed over no array, or an empty one
NoRecords(h) == DataOf(h).t = "array" => DataOf(h).a = <<>>

\* C7: on an empty or absent input array the aggregation yields an empty
\* result: part_001's lists are empty and its totals 0, and
\* ExecutiveSummarySection.tsx's memoised metrics are null
C7_EmptyInput ==
  /\ component = P1 /\ NoRecords("sales") =>
       /\ locations(DataOf("sales")) = <<>>
       /\ locationProgress(DataOf("sales")) = <<>>
       /\ topProducts(DataOf("sales")) = <<>>
       /\ categoryData(DataOf("sales")) = <<>>
       /\ totalRevenue(DataOf("sales")) = Num(0)
       /\ averageTransaction(DataOf("sales")) = Num(0)
       /\ uniqueCustomers(DataOf("sales")) = 0
  /\ component = P1 /\ NoRecords("payroll") =>
       /\ topTrainers(DataOf("payroll")) = <<>>
       /\ totalTrainers(DataOf("payroll")) = Num(0)
  /\ component = P1 /\ NoRecords("sessions") => totalSessions(DataOf("sessions")) = Num(0)
  /\ component = P1 /\ NoRecords("newClient") => totalClients(DataOf("newClient")) = Num(0)
  /\ component = Tsx /\ NoRecords("sales") => salesMetrics = Null
  /\ component = Tsx /\ NoRecords("sessions") => sessionMetrics = Null
  /\ component = Tsx /\ NoRecords("payroll") => trainerMetrics = Null
  /\ component = Tsx /\ NoRecords("newClient") => clientMetrics = Null

\* part_001 has been handed an empty sales array and no payroll array
C7_Witness ==
  /\ component = P1
  /\ DataOf("sales") = Arr(<<>>)
  /\ hook["payroll"].loading = Bool(FALSE)
  /\ DataOf("payroll") = Undefined
  /\ totalRevenue(DataOf("sales")) = Num(0)
  /\ topTrainers(DataOf("payroll")) = <<>>

\* C8: no aggregation mutates its input: every array a hook holds is the
\* array it was handed, the same records in the same order
C8_InputsUnchanged ==
  \A h \in Hooks : DataOf(h).t = "array" => DataOf(h) = delivered[h]

\* C9: a change of the filters re-triggers the aggregation: the render that
\* follows it runs the metrics callbacks
C9_FiltersRetrigger ==
  [][filters' # filters => memoRan' = Hooks]_vars

\* C10: once loading has finished, a hook's error is rendered as an error
\* message in place of the metrics
C10_ErrorSurfaced ==
  /\ \A h \in HooksOf(component) : hook[h].loading = Bool(FALSE)
  /\ \E h \in HooksOf(component) : hook[h].error # Null
  => View.kind = "error"

\* the sum of field f over the records of a that hold a number there, every
\* other record contributing 0
RECURSIVE SumOfNumbers(_, _)
SumOfNumbers(a, f) ==
  IF a = <<>> THEN 0
  ELSE SumOfNumbers(Tail(a), f)
         + (IF f \in DOMAIN Head(a) /\ Head(a)[f].t = "number" THEN Head(a)[f].n ELSE 0)

\* C11: a numeric field that is absent, null, NaN or not a number contributes
\* 0 to every sum it feeds: every total is the number obtained by summing the
\* records that hold a number
C11_InvalidAsZero ==
  /\ component = Tsx /\ salesMetrics.t = "object" =>
       /\ salesMetrics.totalRevenue = Num(SumOfNumbers(Input("sales"), "paymentValue"))
       /\ \A g \in 1..Len(salesMetrics.locationBreakdown) :
            salesMetrics.locationBreakdown[g].revenue
              = Num(SumOfNumbers(Input("sales"), "paymentValue"))
  /\ component = P1 =>
       /\ totalRevenue(DataOf("sales")) = Num(SumOfNumbers(Input("sales"), "paymentValue"))
       /\ \A g \in 1..Len(locations(DataOf("sales"))) :
            locations(DataOf("sales"))[g].value
              = Num(SumOfNumbers(Input("sales"), "paymentValue"))
       /\ \A g \in 1..Len(topTrainers(DataOf("payroll"))) :
            topTrainers(DataOf("payroll"))[g].revenue
              = Num(SumOfNumbers(Input("payroll"), "totalPaid"))

\* the same with text left out of the cells: absent, null and NaN count 0
C11_AbsentNullNaN ==
  (\A h \in Hooks : \A i \in 1..Len(Input(h)) : \A f \in DOMAIN Input(h)[i] :
     f \in {"paymentValue", "totalPaid"} => Input(h)[i][f].t # "string")
  => C11_InvalidAsZero

\* the keys under which the records of a are grouped by field f are the values
\* some record holds there, or 'Unknown', which is the key of every record
\* that holds none
KeysPresentOrUnknown(keys, a, f) ==
  /\ \A k \in keys : k = Unknown \/ \E i \in 1..Len(a) : Get(a[i], f) = Str(k)
  /\ \A i \in 1..Len(a) : ~Truthy(Get(a[i], f)) => Unknown \in keys

\* C12: in every grouped reduction a record without the grouping field is
\* accumulated under 'Unknown': every group key is a value of some record or
\* 'Unknown'
C12_UnknownKey ==
  /\ component = P1 =>
       LET sales == DataOf("sales")
       IN /\ KeysPresentOrUnknown({g[1] : g \in {locationData(sales)[i] : i \in 1..Len(locationData(sales))}},
                                  Input("sales"), "calculatedLocation")
          /\ KeysPresentOrUnknown({g[1] : g \in {productData(sales)[i] : i \in 1..Len(productData(sales))}},
                                  Input("sales"), "cleanedProduct")
          /\ KeysPresentOrUnknown({categoryData(sales)[i].name.s : i \in 1..Len(categoryData(sales))},
                                  Input("sales"), "cleanedCategory")
          /\ KeysPresentOrUnknown({g[1] : g \in {trainerData(DataOf("payroll"))[i] :
                                                   i \in 1..Len(trainerData(DataOf("payroll")))}},
                                  Input("payroll"), "teacherName")
  /\ component = Tsx /\ salesMetrics.t = "object" =>
       KeysPresentOrUnknown({salesMetrics.locationBreakdown[i].name :
                               i \in 1..Len(salesMetrics.locationBreakdown)},
                            Input("sales"), "calculatedLocation")
  /\ component = Tsx /\ sessionMetrics.t = "object" =>
       LET keys == {sessionMetrics.classTypeBreakdown[i][1] :
                      i \in 1..Len(sessionMetrics.classTypeBreakdown)}
           a == Input("sessions")
       IN /\ \A k \in keys :
               k = Unknown \/ \E i \in 1..Len(a) :
                                Get(a[i], "cleanedClass") = Str(k) \/ Get(a[i], "classType") = Str(k)
          /\ \A i \in 1..Len(a) :
               ~Truthy(Get(a[i], "cleanedClass")) /\ ~Truthy(Get(a[i], "classType"))
                 => Unknown \in keys

\* the distinct values of field f over the records of a whose index is in I
Distinct(a, f, I) == {Get(a[i], f) : i \in I}

\* C13: each distinct count is the cardinality of the set of values observed:
\* uniqueMembers over all the sales, a location's members over the sales of
\* the location, which never exceeds uniqueMembers
C13_DistinctCounts ==
  /\ component = Tsx /\ salesMetrics.t = "object" =>
       LET a == Input("sales")
       IN /\ salesMetrics.uniqueMembers = Cardinality(Distinct(a, "memberId", 1..Len(a)))
          /\ \A g \in 1..Len(salesMetrics.locationBreakdown) :
               LET group == salesMetrics.locationBreakdown[g]
               IN /\ group.members
                       = Cardinality(Distinct(a, "memberId",
                                              Members(a, "calculatedLocation", Unknown, group.name)))
                  /\ group.members <= salesMetrics.uniqueMembers
  /\ component = P1 =>
       uniqueCustomers(DataOf("sales"))
         = Cardinality(Distinct(Input("sales"), "memberId", 1..Len(Input("sales"))))

\* two sales of one member in two locations: one unique member, and one
\* member in each location
C13_Witness ==
  /\ component = Tsx
  /\ salesMetrics.t = "object"
  /\ salesMetrics.totalTransactions = Num(2)
  /\ salesMetrics.uniqueMembers = 1
  /\ Len(salesMetrics.locationBreakdown) = 2
  /\ \A g \in 1..2 : salesMetrics.locationBreakdown[g].members = 1

\* C14: the aggregation is pure: evaluated on the same input arrays it yields
\* the same output whatever the current date
C14_Pure ==
  component = Tsx /\ delivered["sales"].t = "array" =>
    \A d \in MountDates : ComputeSalesMetrics(delivered["sales"], d) = salesMetrics

\* at one date, a second evaluation on the arrays the hooks hold yields the
\* memoised metrics again
C14_RepeatableAtOneDate ==
  component = Tsx =>
    /\ ComputeSalesMetrics(DataOf("sales"), today) = salesMetrics
    /\ ComputeSessionMetrics(DataOf("sessions")) = sessionMetrics
    /\ ComputeTrainerMetrics(DataOf("payroll")) = trainerMetrics
    /\ ComputeClientMetrics(DataOf("newClient")) = clientMetrics

\* the indices of the sessions of class type k
SessionsOfType(a, k) == {i \in 1..Len(a) : ClassTypeOf(a[i]) = k}

\* C15: the fill rate reported for a class type is the checked-in count of its
\* sessions divided by their capacity, as a percentage, and 0 when the
\* capacity is 0
C15_FillRate ==
  component = Tsx /\ sessionMetrics.t = "object" =>
    LET a == Input("sessions")
        rows == classTypePerformance(sessionMetrics)
    IN \A i \in 1..Len(rows) :
         LET checkedIn == SumOver(a, "checkedInCount", SessionsOfType(a, rows[i].classType))
             capacity == SumOver(a, "capacity", SessionsOfType(a, rows[i].classType))
         IN rows[i].fillRate =
              (IF capacity = 0 THEN Str(<<"0", "%">>)
               ELSE Str(ToFixed1(Rat(100 * checkedIn, capacity)) \o <<"%">>))

\* C16: an ExecutiveSummarySection renders only the loading indicator while one
\* of its four data sources has loading = true, and the dashboard once all
\* four have loading = false
C16_LoadingView ==
  component \in {Tsx, P1} =>
    /\ (\E h \in Hooks : hook[h].loading = Bool(TRUE)) => View.kind = "loading"
    /\ (\A h \in Hooks : hook[h].loading = Bool(FALSE)) => View.kind = "dashboard"

\* the same of ExecutiveSummarySection.tsx alone
C16_LoadingViewTsx == component = Tsx => C16_LoadingView

\* the number of records of a whose field f holds exactly the text lit
Holding(a, f, lit) == Cardinality({i \in 1..Len(a) : f \in DOMAIN a[i] /\ a[i][f] = Str(lit)})

\* x is a number from 0 to 100
IsPercentage(x) == x.t = "number" /\ 0 <= x.n /\ x.n <= 100 * x.d

\* C17: conversionRate is 100 times the number of clients whose
\* conversionStatus is exactly 'Converted' over the number of clients;
\* convertedClients and retainedClients never exceed totalNewClients, and both
\* rates lie in 0..100
C17_ConversionRate ==
  component = Tsx /\ clientMetrics.t = "object" =>
    LET a == Input("newClient")
    IN /\ clientMetrics.totalNewClients = Num(Len(a))
       /\ clientMetrics.convertedClients = Num(Holding(a, "conversionStatus", Converted))
       /\ clientMetrics.retainedClients = Num(Holding(a, "retentionStatus", Retained))
       /\ clientMetrics.conversionRate
            = Rat(100 * Holding(a, "conversionStatus", Converted), Len(a))
       /\ clientMetrics.convertedClients.n <= clientMetrics.totalNewClients.n
       /\ clientMetrics.retainedClients.n <= clientMetrics.totalNewClients.n
       /\ IsPercentage(clientMetrics.conversionRate)
       /\ IsPercentage(clientMetrics.retentionRate)

\* of two clients one is 'Converted' and the other 'converted': the rate is 50
C17_Witness ==
  /\ component = Tsx
  /\ clientMetrics.t = "object"
  /\ Len(Input("newClient")) = 2
  /\ \E i \in 1..2 :
       Input("newClient")[i].conversionStatus = Str(<<"c", "o", "n", "v", "e", "r", "t", "e", "d">>)
  /\ clientMetrics.convertedClients = Num(1)
  /\ clientMetrics.conversionRate = Num(50)

\* C18: the reported number of trainers is the number of distinct teacherId
\* values of the payroll rows, also when several rows carry one trainer
C18_TrainerCount ==
  LET a == Input("payroll")
      trainers == Cardinality(Distinct(a, "teacherId", 1..Len(a)))
  IN /\ component = Tsx /\ trainerMetrics.t = "object" => trainerMetrics.totalTrainers = trainers
     /\ component = P1 => totalTrainers(DataOf("payroll")) = Num(trainers)

\* the same of ExecutiveSummarySection.tsx alone
C18_TrainerCountTsx == component = Tsx => C18_TrainerCount

\* the first day of the calendar month n months before the month of date
MonthsBefore(date, n) ==
  DateOf(date.y + ((date.m - n) \div 12), (date.m - n) % 12, 1)

\* the sum of the numbers xs[1..n]
RECURSIVE SumFirst(_, _)
SumFirst(xs, n) == IF n = 0 THEN Num(0) ELSE Add(SumFirst(xs, n - 1), xs[n])

\* the indices of the sales dated in one of the 12 months that end with the
\* month of date
DatedInWindow(a, date) ==
  {i \in 1..Len(a) :
     \E n \in 0..11 : SameMonth(NewDate(Get(a[i], "paymentDate")), MonthsBefore(date, n))}

\* C19: whatever the current date, monthlyTrends holds 12 buckets for the 12
\* consecutive calendar months that end with the current month, oldest first,
\* and the sales dated in those months are counted once each: the buckets'
\* transactions sum to their number and the buckets' revenue to the sum of
\* their paymentValue
C19_MonthlyTrends ==
  component = Tsx /\ salesMetrics.t = "object" =>
    LET trends == salesMetrics.monthlyTrends
        a == Input("sales")
    IN /\ Len(trends) = 12
       /\ \A k \in 1..12 : trends[k].month = MonthLabel(MonthsBefore(today, 12 - k))
       /\ \A j, k \in 1..12 : j # k => trends[j].month # trends[k].month
       /\ SumFirst([k \in 1..12 |-> trends[k].transactions], 12)
            = Num(Cardinality(DatedInWindow(a, today)))
       /\ SumFirst([k \in 1..12 |-> trends[k].revenue], 12)
            = Num(SumOver(a, "paymentValue", DatedInWindow(a, today)))

\* the same on the days every month has
C19_MonthlyTrendsUpTo28 == today.d <= 28 => C19_MonthlyTrends

\* for the sales ExecutiveSummarySection.tsx has aggregated, part_001 yields
\* the same total revenue, unique-member count and location groups
SalesAgree ==
  component = Tsx /\ salesMetrics.t = "object" =>
    LET sales == delivered["sales"]
        groups == ObjectValues(locationData(sales))
    IN /\ totalRevenue(sales) = salesMetrics.totalRevenue
       /\ uniqueCustomers(sales) = salesMetrics.uniqueMembers
       /\ Len(groups) = Len(salesMetrics.locationBreakdown)
       /\ \A g \in 1..Len(groups) :
            /\ groups[g].name.s = salesMetrics.locationBreakdown[g].name
            /\ groups[g].value = salesMetrics.locationBreakdown[g].revenue
            /\ groups[g].count = salesMetrics.locationBreakdown[g].transactions

\* for the payroll rows ExecutiveSummarySection.tsx has aggregated, part_001
\* yields the same list of top trainers
TrainersAgree ==
  component = Tsx /\ trainerMetrics.t = "object" =>
    LET top == topTrainers(delivered["payroll"])
    IN [i \in 1..Len(top) |-> top[i].name]
         = [i \in 1..Len(trainerMetrics.topTrainers) |-> trainerMetrics.topTrainers[i].name]

\* C20: on the same non-empty sales the two ExecutiveSummarySection
\* implementations agree on total revenue, unique members and every
\* location's revenue and transactions, and on the same payroll rows they
\* yield the same top-5 trainers
C20_ImplementationsAgree == SalesAgree /\ TrainersAgree

\* C21: the location breakdown partitions the sales: over its entries the
\* revenue sums to totalRevenue, the transactions sum to totalTransactions and
\* the members sum to at least uniqueMembers
C21_LocationPartition ==
  component = Tsx /\ salesMetrics.t = "object" =>
    LET groups == salesMetrics.locationBreakdown
        n == Len(groups)
    IN /\ SumFirst([g \in 1..n |-> groups[g].revenue], n) = salesMetrics.totalRevenue
       /\ SumFirst([g \in 1..n |-> groups[g].transactions], n) = salesMetrics.totalTransactions
       /\ SumFirst([g \in 1..n |-> Num(groups[g].members)], n).n >= salesMetrics.uniqueMembers

\* two sales of 1 by one member, in two locations: the members of the
\* locations sum to 2, above the one unique member
C21_Witness ==
  /\ component = Tsx
  /\ salesMetrics.t = "object"
  /\ salesMetrics.totalRevenue = Num(2)
  /\ salesMetrics.uniqueMembers = 1
  /\ Len(salesMetrics.locationBreakdown) = 2
  /\ \A g \in 1..2 : salesMetrics.locationBreakdown[g].revenue = Num(1)

\* C22: totalBookings equals totalCheckins, so attendanceRate is 100 when the
\* checkedInCount of the sessions sums to a positive number and 0 otherwise;
\* each class type's bookings equals its checkins
C22_BookingsAreCheckins ==
  component = Tsx /\ sessionMetrics.t = "object" =>
    /\ sessionMetrics.totalBookings = sessionMetrics.totalCheckins
    /\ sessionMetrics.attendanceRate \in {Num(0), Num(100)}
    /\ sessionMetrics.attendanceRate
         = (IF ArithmeticSum(Input("sessions"), "checkedInCount") > 0 THEN Num(100) ELSE Num(0))
    /\ \A i \in 1..Len(sessionMetrics.classTypeBreakdown) :
         sessionMetrics.classTypeBreakdown[i][2].bookings
           = sessionMetrics.classTypeBreakdown[i][2].checkins

\* of two sessions one has 2 check-ins and the other no count: the rate is 100
C22_Witness ==
  /\ component = Tsx
  /\ sessionMetrics.t = "object"
  /\ Len(Input("sessions")) = 2
  /\ \E i \in 1..2 : "checkedInCount" \notin DOMAIN Input("sessions")[i]
  /\ sessionMetrics.totalCheckins = Num(2)
  /\ sessionMetrics.attendanceRate = Num(100)

\* sessions without any check-in count: the rate is 0
C22_WitnessZero ==
  /\ component = Tsx
  /\ sessionMetrics.t = "object"
  /\ sessionMetrics.totalBookings = Num(0)
  /\ sessionMetrics.attendanceRate = Num(0)

\* C23: in DiscountsSection loading takes precedence over the error, the
\* content is rendered only when loading is false and the error falsy, and the
\* error view shows the error when it is a string and 'An unknown error
\* occurred' for every other truthy error
C23_DiscountsViews ==
  component = P0 =>
    LET loading == hook["sales"].loading
        error == hook["sales"].error
    IN /\ loading = Bool(TRUE) => View.kind = "loading"
       /\ View.kind = "content"
            <=> (loading = Bool(FALSE) /\ error \in {Null, Undefined, Str(<<>>), Num(0)})
       /\ loading = Bool(FALSE) /\ error.t = "string" /\ error.s # <<>> =>
            View = [kind |-> "error", errorMessage |-> error.s]
       /\ loading = Bool(FALSE) /\ error \in {Num(404), ErrorObject} =>
            View = [kind |-> "error", errorMessage |-> UnknownError]

\* the hook reports an error while it is loading: the loading view is shown
C23_Witness ==
  /\ component = P0
  /\ hook["sales"].loading = Bool(TRUE)
  /\ hook["sales"].error = Str(FailedToLoad)
  /\ View.kind = "loading"

\* the hook has ended with an Error object: the unknown-error text is shown
C23_WitnessUnknownError ==
  /\ component = P0
  /\ hook["sales"].loading = Bool(FALSE)
  /\ hook["sales"].error = ErrorObject
  /\ View = [kind |-> "error", errorMessage |-> UnknownError]

\* C24: the drill-down modal is open only if handleDrillDown has been called
\* and the modal not closed since, and while it is open drillDownData and
\* drillDownType are the arguments of the most recent handleDrillDown call
C24_DrillDownState ==
  component = P1 /\ isDrillDownOpen =>
    /\ openCall # Null
    /\ <<drillDownData, drillDownType>> = openCall

\* the modal shows a trainer after it had been closed on a product
C24_Witness ==
  /\ component = P1
  /\ isDrillDownOpen
  /\ drillDownType = "trainer"
  /\ openCall = <<drillDownData, "trainer">>
  /\ selectedTab = "trainers"

\* the modal has been closed: the arguments of the last call stay in the state
C24_WitnessClosed ==
  /\ component = P1
  /\ ~isDrillDownOpen
  /\ openCall = Null
  /\ drillDownData # Null

\* the aggregates part_001 renders from the four arrays
P1AggregatesOf(s, se, p, c) ==
  <<totalRevenue(s), totalSessions(se), totalTrainers(p), totalClients(c),
    locations(s), locationProgress(s), topProducts(s), topTrainers(p),
    averageTransaction(s), uniqueCustomers(s), categoryData(s)>>

\* the four arrays the hooks hold
P1Arrays ==
  <<DataOf("sales"), DataOf("sessions"), DataOf("payroll"), DataOf("newClient")>>

P1Aggregates == P1AggregatesOf(P1Arrays[1], P1Arrays[2], P1Arrays[3], P1Arrays[4])

\* C25: closing the drill-down modal changes isDrillDownOpen alone, and
\* changing the selected tab changes neither the drill-down state nor any
\* aggregate
C25_CloseAndTabFrame ==
  [][component = P1 =>
       /\ isDrillDownOpen /\ ~isDrillDownOpen' =>
            /\ drillDownData' = drillDownData
            /\ drillDownType' = drillDownType
            /\ selectedTab' = selectedTab
       /\ selectedTab' # selectedTab =>
            /\ drillDownData' = drillDownData
            /\ drillDownType' = drillDownType
            /\ isDrillDownOpen' = isDrillDownOpen
            /\ \A after \in {P1Arrays'} :
                 P1AggregatesOf(after[1], after[2], after[3], after[4])
                   = P1Aggregates]_vars

\* a product's drill-down has been closed and the sales tab selected: the
\* product's data is still in the state
C25_Witness ==
  /\ component = P1
  /\ ~isDrillDownOpen
  /\ drillDownType = "product"
  /\ drillDownData # Null
  /\ selectedTab = "sales"

\* the four metrics objects of ExecutiveSummarySection
MetricsObjects == <<salesMetrics, sessionMetrics, trainerMetrics, clientMetrics>>

\* C26: resetFilters can be called in every state that shows the dashboard,
\* whatever the filters are; it leaves the filters at their initial value
\* (empty start and end, five empty lists), a second call changes nothing
\* of the filters, and the four metrics objects are as they were
C26_ResetFilters ==
  [][component = Tsx /\ View.kind = "dashboard" =>
       /\ ENABLED resetFilters
       /\ resetFilters =>
            /\ filters' = InitialFilters
            /\ filters'.dateRange = [start |-> "", end |-> ""]
            /\ \A f \in {"location", "category", "product", "soldBy", "paymentMethod"} :
                 filters'[f] = <<>>
            /\ filters = InitialFilters => filters' = filters
            /\ MetricsObjects' = MetricsObjects]_vars

\* the dashboard shows metrics of delivered sales and the filters are the
\* initial ones in a render that ran no memo callback: a reset has acted
C26_Witness ==
  /\ component = Tsx
  /\ View.kind = "dashboard"
  /\ Delivered("sales") > 0
  /\ salesMetrics # Null
  /\ filters = InitialFilters
  /\ memoRan = {}

\* C27: in DiscountsSection a step that changes one of filters,
\* isFilterCollapsed and showSourceData changes neither of the other two nor
\* the data handed to the children, and isFilterCollapsed is true exactly
\* after an odd number of toggles, so that two toggles restore it
C27_IndependentState ==
  /\ [](component = P0 => isFilterCollapsed = (toggles % 2 = 1))
  /\ [][component = P0 =>
          /\ discountFilters' # discountFilters =>
               /\ isFilterCollapsed' = isFilterCollapsed
               /\ showSourceData' = showSourceData
               /\ DataOf("sales")' = DataOf("sales")
          /\ isFilterCollapsed' # isFilterCollapsed =>
               /\ discountFilters' = discountFilters
               /\ showSourceData' = showSourceData
               /\ DataOf("sales")' = DataOf("sales")
          /\ showSourceData' # showSourceData =>
               /\ discountFilters' = discountFilters
               /\ isFilterCollapsed' = isFilterCollapsed
               /\ DataOf("sales")' = DataOf("sales")]_vars

\* sales are shown, filters were chosen, the source-data modal is open and
\* the filter section is expanded again after two toggles
C27_Witness ==
  /\ component = P0
  /\ View.kind = "content"
  /\ Delivered("sales") > 0
  /\ discountFilters # EmptyObject
  /\ showSourceData
  /\ toggles = 2
  /\ ~isFilterCollapsed

====
